---- MODULE Spec2Model ----
(***************************************************************************)
(* Browser client of the stock "undercover" game: the game-room page       *)
(* (class StockUndercoverGame, static/js/game.js) and the lobby page       *)
(* (class GameLobby).  The server engine is not part of the sources; the   *)
(* definitions whose names start with Srv model it from the specification. *)
(*                                                                         *)
(* Free text typed into a form field is a sequence of one-character        *)
(* strings; identifiers (player ids, card ids, stock symbols) are atomic   *)
(* strings.  User-visible texts of the source are written as ASCII keys.   *)
(***************************************************************************)
EXTENDS Integers, Sequences, FiniteSets, TLC

VARIABLES
    game,         \* the StockUndercoverGame object: its fields
    dom,          \* the part of the document the game page reads and writes
    timers,       \* pending setTimeout(updateTimer, 1000) callbacks, in firing order
    uncaught,     \* the handlers that have ended by an uncaught exception
    outbox,       \* socket.emit messages not yet consumed by the server
    inbox,        \* socket events sent by the server, not yet handled
    fetch,        \* the fetch of /api/game_state/<id> started by loadGameState
    srv,          \* the engine: its current snapshot and what it has issued
    lobby,        \* the lobby page: form fields, notification, location
    requests      \* the lobby's fetches in flight, with what each call captured

vars == <<game, dom, timers, uncaught, outbox, inbox, fetch, srv, lobby, requests>>

gameVars == <<game, dom, timers, uncaught, outbox, inbox, fetch, srv>>
lobbyVars == <<lobby, requests>>

-----------------------------------------------------------------------------
(* Bounds of the model *)

\* snapshots the engine broadcasts in one run
MaxSnapshots == 2
\* socket.emit messages waiting for the server at one time
MaxOutbox == 1
\* characters of a typed form field, in the specifications that draw every text
MaxLen == 3
\* lobby requests in flight at one time
MaxPending == 2
\* socket events that may still wait for the page when the engine commits
\* the next command
MaxBacklog == 1
\* seconds the engine gives a timed phase
MaxTime == 1
\* chat messages the engine relays in one run
MaxMessages == 1
\* levels rendered below 0, above 0, below 100 and above 100
Over == 1
\* seconds of the longest countdown
MaxCountdown == 61
\* notification elements in a document at one time
MaxNotifications == 1

-----------------------------------------------------------------------------
(* Values *)

\* JavaScript null, for fields that otherwise hold an atomic string
Null == "<null>"
\* JavaScript null, for gameState
NullState == [isNull |-> TRUE]

GameId == "g1"

\* the characters a typed text is made of in this model: digits, sign, dot,
\* exponent mark, the x of a hexadecimal prefix, blank, tab, and "a" for a
\* letter (a hexadecimal digit to parseInt)
Alphabet == {"0", "3", "9", "-", ".", "e", "x", " ", "\t", "a"}

RECURSIVE TextsOfLen(_)
TextsOfLen(n) ==
    IF n = 0 THEN {<<>>}
    ELSE {<<c>> \o t : c \in Alphabet, t \in TextsOfLen(n - 1)}

Texts == UNION {TextsOfLen(n) : n \in 0..MaxLen}

InfinityText == <<"I", "n", "f", "i", "n", "i", "t", "y">>

-----------------------------------------------------------------------------
(* Numbers, parseFloat, parseInt, String.trim *)

\* a JavaScript number: NaN, an infinity, or (-1)^neg * mant / 10^exp.  An
\* integer below 10^9 has exp = 0; a fraction has exp > 0 and no trailing
\* zero in mant; a larger integer has exp < 0 and no trailing zero in mant.
\* A finite number is written with the digits of Number.prototype.toString,
\* the shortest decimal that reads back as the same double.  Exact for texts
\* of up to nine significant digits.
NaN == [nan |-> TRUE, inf |-> FALSE, neg |-> FALSE, mant |-> 0, exp |-> 0]

Infinite(neg) == [nan |-> FALSE, inf |-> TRUE, neg |-> neg, mant |-> 0, exp |-> 0]

Zero(neg) == [nan |-> FALSE, inf |-> FALSE, neg |-> neg, mant |-> 0, exp |-> 0]

IsDigit(c) == c \in {"0", "1", "2", "3", "4", "5", "6", "7", "8", "9"}

DigitVal(c) ==
    CASE c = "0" -> 0 [] c = "1" -> 1 [] c = "2" -> 2 [] c = "3" -> 3
      [] c = "4" -> 4 [] c = "5" -> 5 [] c = "6" -> 6 [] c = "7" -> 7
      [] c = "8" -> 8 [] c = "9" -> 9

IsHexDigit(c) ==
    IsDigit(c) \/ c \in {"a", "b", "c", "d", "e", "f", "A", "B", "C", "D", "E", "F"}

HexVal(c) ==
    CASE IsDigit(c) -> DigitVal(c)
      [] c \in {"a", "A"} -> 10 [] c \in {"b", "B"} -> 11 [] c \in {"c", "C"} -> 12
      [] c \in {"d", "D"} -> 13 [] c \in {"e", "E"} -> 14 [] c \in {"f", "F"} -> 15

\* U+000B, vertical tab
VerticalTab == ""

\* U+00A0, no-break space
NoBreakSpace == " "

\* U+1680, ogham space mark
OghamSpace == " "

\* U+FEFF, zero width no-break space
ByteOrderMark == "﻿"

\* WhiteSpace and LineTerminator of ECMAScript, skipped by parseFloat,
\* parseInt and String.prototype.trim: blank, tab, line feed, form feed,
\* carriage return, U+000B, U+00A0, U+1680 and U+FEFF.  The others (U+2000 to
\* U+200A, U+2028, U+2029, U+202F, U+205F, U+3000) are no characters of a
\* string of this module, so no text here holds one.
IsSpace(c) ==
    c \in {" ", "\t", "\n", "\f", "\r", VerticalTab, NoBreakSpace, OghamSpace, ByteOrderMark}

RECURSIVE SkipSpaces(_)
SkipSpaces(s) ==
    IF s # <<>> /\ IsSpace(Head(s)) THEN SkipSpaces(Tail(s)) ELSE s

RECURSIVE DigitRun(_)
DigitRun(s) ==
    IF s # <<>> /\ IsDigit(Head(s)) THEN <<Head(s)>> \o DigitRun(Tail(s)) ELSE <<>>

RECURSIVE HexRun(_)
HexRun(s) ==
    IF s # <<>> /\ IsHexDigit(Head(s)) THEN <<Head(s)>> \o HexRun(Tail(s)) ELSE <<>>

RECURSIVE DigitsValue(_)
DigitsValue(ds) ==
    IF ds = <<>> THEN 0
    ELSE 10 * DigitsValue(SubSeq(ds, 1, Len(ds) - 1)) + DigitVal(ds[Len(ds)])

RECURSIVE HexValue(_)
HexValue(ds) ==
    IF ds = <<>> THEN 0
    ELSE 16 * HexValue(SubSeq(ds, 1, Len(ds) - 1)) + HexVal(ds[Len(ds)])

\* the number of "0" at the end, and at the start, of a run of digits
RECURSIVE TrailingZeros(_)
TrailingZeros(ds) ==
    IF ds # <<>> /\ ds[Len(ds)] = "0"
    THEN 1 + TrailingZeros(SubSeq(ds, 1, Len(ds) - 1)) ELSE 0

RECURSIVE LeadingZeros(_)
LeadingZeros(ds) ==
    IF ds # <<>> /\ Head(ds) = "0" THEN 1 + LeadingZeros(Tail(ds)) ELSE 0

RECURSIVE Pow10(_)
Pow10(k) == IF k = 0 THEN 1 ELSE 10 * Pow10(k - 1)

RECURSIVE DecimalDigits(_)
DecimalDigits(m) == IF m < 10 THEN 1 ELSE 1 + DecimalDigits(m \div 10)

\* Long integers, for the arithmetic of a double: a sequence of limbs in
\* base 10^4, the lowest limb first.
Base == 10000

RECURSIVE BigOf(_)
BigOf(n) == IF n < Base THEN <<n>> ELSE <<n % Base>> \o BigOf(n \div Base)

\* a * k + carry for a limb k
RECURSIVE BigScale(_, _, _)
BigScale(a, k, carry) ==
    IF a = <<>> THEN (IF carry = 0 THEN <<>> ELSE <<carry>>)
    ELSE LET t == Head(a) * k + carry
         IN <<t % Base>> \o BigScale(Tail(a), k, t \div Base)

RECURSIVE BigAdd(_, _, _)
BigAdd(a, b, carry) ==
    IF a = <<>> /\ b = <<>> THEN (IF carry = 0 THEN <<>> ELSE <<carry>>)
    ELSE LET t == (IF a = <<>> THEN 0 ELSE Head(a)) + (IF b = <<>> THEN 0 ELSE Head(b)) + carry
         IN <<t % Base>> \o BigAdd(IF a = <<>> THEN a ELSE Tail(a),
                                   IF b = <<>> THEN b ELSE Tail(b), t \div Base)

RECURSIVE BigMul(_, _)
BigMul(a, b) ==
    IF b = <<>> THEN <<>>
    ELSE BigAdd(BigScale(a, Head(b), 0), <<0>> \o BigMul(a, Tail(b)), 0)

\* 2^1074, the number of least positive doubles 2^-1074 in one (81 limbs)
TwoTo1074 ==
    <<4784, 9349, 7410, 7707, 6330, 62, 8646, 2750, 1863, 2532, 3050, 6152,
      3414, 5233, 7695, 2358, 5651, 8100, 6340, 5955, 6491, 3355, 1810, 6986,
      4692, 8342, 74, 8562, 4506, 4727, 7678, 3976, 3412, 3216, 4209, 9077,
      4466, 6136, 5663, 4276, 1742, 9215, 8509, 4073, 3999, 7013, 7686, 7934,
      7385, 873, 3898, 1911, 1681, 8643, 7077, 9518, 1244, 1437, 8370, 9603,
      6891, 9534, 5679, 339, 2743, 3580, 6901, 1835, 1421, 9764, 5664, 495,
      7307, 1891, 3467, 2495, 1835, 3106, 3307, 225, 2024>>

\* 5^1075: half the least positive double, 2^-1075, is 5^1075 / 10^1075
\* (188 limbs)
FiveTo1075 ==
    <<8125, 3632, 6672, 1327, 9859, 5320, 3412, 3769, 1454, 2826, 3772, 2138,
      1396, 8545, 5131, 1028, 582, 497, 8324, 9496, 6679, 6948, 7918, 2547,
      836, 1369, 1893, 7255, 5550, 5244, 5657, 5599, 3027, 5628, 8792, 3885,
      9863, 3508, 6682, 8497, 7234, 186, 3891, 8042, 3732, 6239, 7963, 8818,
      3653, 1262, 5249, 6239, 9164, 3865, 1711, 6539, 487, 849, 5753, 5300,
      300, 9184, 4672, 1914, 8046, 1596, 4162, 7860, 7666, 4223, 6113, 5166,
      7458, 3553, 3405, 8951, 96, 6736, 6324, 4017, 5067, 577, 6193, 9677,
      9007, 3633, 4507, 7393, 3785, 2262, 8166, 2082, 4540, 9470, 9659, 9770,
      5499, 648, 3740, 56, 2722, 2728, 6465, 2276, 5746, 3579, 9726, 2465,
      5531, 7801, 3519, 8409, 3433, 9278, 1332, 5855, 2795, 1928, 631, 9037,
      9269, 8576, 15, 757, 5848, 8636, 3669, 6562, 2193, 8249, 5767, 3704,
      319, 5250, 5361, 9936, 284, 9318, 4435, 518, 4491, 8392, 9085, 3922,
      226, 1557, 6595, 5035, 631, 939, 539, 3980, 9387, 9819, 9698, 5177,
      2835, 4633, 8865, 2285, 3477, 8282, 8989, 9961, 817, 1818, 6499, 5932,
      437, 6351, 7753, 5033, 8412, 2792, 8221, 1623, 1307, 2990, 1825, 686,
      3411, 3964, 8284, 7208, 6232, 2920, 3282, 2470>>

\* limb j of the product a * b before carries, summed from the limb i of b on
RECURSIVE Column(_, _, _, _)
Column(a, b, j, i) ==
    IF i > Len(b) THEN 0
    ELSE (IF j - i + 1 \in 1..Len(a) THEN a[j - i + 1] * b[i] ELSE 0) + Column(a, b, j, i + 1)

\* the carry out of the limbs lo..hi of a * b, given the carry into limb lo;
\* half, when not 0, is the limb that half of Base is added to
RECURSIVE ProductCarry(_, _, _, _, _, _)
ProductCarry(a, b, half, lo, hi, carry) ==
    IF lo > hi THEN carry
    ELSE IF lo = hi
         THEN (Column(a, b, lo, 1) + carry + (IF lo = half THEN Base \div 2 ELSE 0)) \div Base
    ELSE LET mid == (lo + hi) \div 2
             low == ProductCarry(a, b, half, lo, mid, carry)
         IN IF low = 0 THEN ProductCarry(a, b, half, mid + 1, hi, 0)
            ELSE ProductCarry(a, b, half, mid + 1, hi, low)

RECURSIVE ProductTop(_, _, _)
ProductTop(a, b, j) ==
    IF j > Len(a) + Len(b) THEN 0
    ELSE Column(a, b, j, 1) + Base * ProductTop(a, b, j + 1)

\* a * b / Base^k as an integer, rounded to nearest or rounded down
ShiftedProduct(a, b, k, rounding) ==
    ProductTop(a, b, k + 1) + ProductCarry(a, b, IF rounding THEN k ELSE 0, 1, k, 0)

\* the finite number (-1)^neg * m * 10^d in the form described above
RECURSIVE Pack(_, _, _)
Pack(neg, m, d) ==
    IF m % 10 = 0 THEN Pack(neg, m \div 10, d + 1)
    ELSE IF d >= 0 /\ DecimalDigits(m) + d <= 9
         THEN [nan |-> FALSE, inf |-> FALSE, neg |-> neg, mant |-> m * Pow10(d), exp |-> 0]
    ELSE [nan |-> FALSE, inf |-> FALSE, neg |-> neg, mant |-> m, exp |-> 0 - d]

\* Number.prototype.toString of the double n * 2^-1074: the decimal
\* s * 10^(i - 324) of the fewest digits between (2n - 1) * 2^-1075 and
\* (2n + 1) * 2^-1075, the nearest to the double when there are several
RECURSIVE Shortest(_, _, _)
Shortest(neg, n, i) ==
    LET scale == BigOf(Pow10(9 - i))
        lo == ShiftedProduct(FiveTo1075, BigMul(BigOf(2 * n - 1), scale), 190, FALSE)
        hi == ShiftedProduct(FiveTo1075, BigMul(BigOf(2 * n + 1), scale), 190, FALSE)
        c == ShiftedProduct(FiveTo1075, BigMul(BigOf(2 * n), scale), 190, TRUE)
    IN IF lo < hi
       THEN Pack(neg, IF c <= lo THEN lo + 1 ELSE IF c > hi THEN hi ELSE c, i - 324)
       ELSE Shortest(neg, n, i - 1)

\* m / 10^e, with a digit below 10^-323, rounded to the nearest multiple
\* n * 2^-1074 of the least positive double
Subnormal(neg, m, e) ==
    Shortest(neg, ShiftedProduct(TwoTo1074, BigMul(BigOf(m), BigOf(Pow10(332 - e))), 83, TRUE), 9)

\* the double nearest to (-1)^neg * m * 10^d.  With m of k digits, read as
\* 0.m * 10^(k + d), it is an infinity from 2^1024 - 2^970 =
\* 0.17976931348623158... * 10^309 on and a zero up to 2^-1075 =
\* 0.24703282292062327... * 10^-323; a decimal with no digit below 10^-323 is
\* the shortest one of its double
RECURSIVE Normalise(_, _, _)
Normalise(neg, m, d) ==
    IF m = 0 THEN Zero(neg)
    ELSE IF m % 10 = 0 THEN Normalise(neg, m \div 10, d + 1)
    ELSE LET k == DecimalDigits(m)
             lead == m * Pow10(9 - k)
         IN IF k + d > 309 \/ (k + d = 309 /\ lead >= 179769314) THEN Infinite(neg)
            ELSE IF k + d < 0 - 323 \/ (k + d = 0 - 323 /\ lead <= 247032822) THEN Zero(neg)
            ELSE IF d <= 0 - 324 THEN Subnormal(neg, m, 0 - d)
            ELSE Pack(neg, m, d)

Drop(s, k) == SubSeq(s, k + 1, Len(s))

StartsWith(s, prefix) == Len(s) >= Len(prefix) /\ SubSeq(s, 1, Len(prefix)) = prefix

\* the exponent part of a decimal literal at the head of s: "e" or "E", an
\* optional sign and digits; 0 when s does not start with one.  An exponent
\* of more than six digits is beyond the range of a double whatever the
\* digits before it.
ExponentOf(s) ==
    IF s = <<>> \/ Head(s) \notin {"e", "E"} THEN 0
    ELSE LET t == Tail(s)
             signed == t # <<>> /\ Head(t) \in {"-", "+"}
             ds == DigitRun(IF signed THEN Tail(t) ELSE t)
             sig == Drop(ds, LeadingZeros(ds))
             size == IF Len(sig) > 6 THEN 1000000 ELSE DigitsValue(sig)
         IN IF ds = <<>> THEN 0
            ELSE IF signed /\ Head(t) = "-" THEN 0 - size ELSE size

\* parseFloat(string): white space, sign, then Infinity or digits, "."
\* digits and an exponent part; the longest such prefix, NaN when it holds no
\* digit
ParseFloat(s) ==
    LET t == SkipSpaces(s)
        signed == t # <<>> /\ Head(t) \in {"-", "+"}
        neg == t # <<>> /\ Head(t) = "-"
        u == IF signed THEN Tail(t) ELSE t
        ip == DigitRun(u)
        v == Drop(u, Len(ip))
        dotted == v # <<>> /\ Head(v) = "."
        fp == IF dotted THEN DigitRun(Tail(v)) ELSE <<>>
        w == IF dotted THEN Drop(v, 1 + Len(fp)) ELSE v
        ds == ip \o fp
        z == TrailingZeros(ds)
    IN IF StartsWith(u, InfinityText) THEN Infinite(neg)
       ELSE IF ds = <<>> THEN NaN
       ELSE Normalise(neg, DigitsValue(SubSeq(ds, 1, Len(ds) - z)),
                      ExponentOf(w) - Len(fp) + z)

\* parseInt(string) without radix: white space, sign, then hexadecimal
\* digits after 0x or 0X, decimal digits otherwise; NaN when there is none
ParseInt(s) ==
    LET t == SkipSpaces(s)
        signed == t # <<>> /\ Head(t) \in {"-", "+"}
        neg == t # <<>> /\ Head(t) = "-"
        u == IF signed THEN Tail(t) ELSE t
        hex == Len(u) >= 2 /\ u[1] = "0" /\ u[2] \in {"x", "X"}
        ds == IF hex THEN HexRun(Drop(u, 2)) ELSE DigitRun(u)
        z == TrailingZeros(ds)
    IN IF ds = <<>> THEN NaN
       ELSE IF hex THEN Normalise(neg, HexValue(ds), 0)
       ELSE Normalise(neg, DigitsValue(SubSeq(ds, 1, Len(ds) - z)), z)

Signed(n) == IF n.neg THEN 0 - n.mant ELSE n.mant

\* n < k, n > k and n <= k for an integer k below 10^9 in size; every
\* comparison with NaN is false.  An infinity and a number of exp < 0 are
\* beyond every such k; a number of exp > 9 is between -1 and 1.
NumLess(n, k) ==
    /\ ~n.nan
    /\ IF n.inf \/ n.exp < 0 THEN n.neg
       ELSE IF n.exp > 9 THEN k >= 1 \/ (k = 0 /\ n.neg /\ n.mant > 0)
       ELSE Signed(n) < k * Pow10(n.exp)

NumGreater(n, k) ==
    /\ ~n.nan
    /\ IF n.inf \/ n.exp < 0 THEN ~n.neg
       ELSE IF n.exp > 9 THEN k <= 0 - 1 \/ (k = 0 /\ ~n.neg /\ n.mant > 0)
       ELSE Signed(n) > k * Pow10(n.exp)

NumLeq(n, k) == ~n.nan /\ ~NumGreater(n, k)

\* !n : NaN, 0 and -0 are falsy
NumFalsy(n) == n.nan \/ (~n.inf /\ n.mant = 0)

IsInteger(n) == ~n.nan /\ ~n.inf /\ n.exp <= 0

RECURSIVE TrimEnd(_)
TrimEnd(s) ==
    IF s # <<>> /\ IsSpace(s[Len(s)]) THEN TrimEnd(SubSeq(s, 1, Len(s) - 1)) ELSE s

\* String.prototype.trim
Trim(s) == TrimEnd(SkipSpaces(s))

-----------------------------------------------------------------------------
(* Snapshots: game_state {players[], stock_market, messages[], phase, round,
   votes, time_remaining}.  An optional field is a sequence of length 0 or 1;
   votes keeps Object.entries order as a sequence of [target, voters]. *)

Phases == {"waiting", "investment", "discussion", "voting", "game_end"}

\* The page markup is not part of the sources.  What the code reads of it:
\* the phases that have an element <phase>-panel of class phase-panel, and
\* the elements of class card-item outside #player-cards.
Markup(panels, cards) == [panels |-> panels, cards |-> cards]

TimedPhases == {"investment", "discussion", "voting"}

\* a page with a panel for each timed phase, and a page with one for every
\* phase; neither has a card item of its own
PlainMarkup == Markup(TimedPhases, <<>>)
FullMarkup == Markup(Phases, <<>>)

\* a page that shows two cards in its own markup
CardMarkup ==
    Markup(TimedPhases, << [cardId |-> "c1", name |-> "Rumor", selected |-> FALSE],
                           [cardId |-> "c9", name |-> "Crash", selected |-> FALSE] >>)

\* document.querySelectorAll('.phase-panel'), by phase
PanelPhases(markup) == markup.panels

\* the card-item elements outside #player-cards
PageCards(markup) == markup.cards

PlayerIds == {"p1", "p2"}

Present(opt) == opt # <<>>
Value(opt) == opt[1]

\* truthiness of an optional number: undefined and 0 are falsy
Truthy(opt) == Present(opt) /\ Value(opt) # 0

-----------------------------------------------------------------------------
(* Rendering: updateUI and what it calls.  u = [game, dom, timers]. *)

getPhaseText(phase) ==
    CASE phase = "waiting" -> "Waiting to start"
      [] phase = "investment" -> "Investment phase"
      [] phase = "discussion" -> "Discussion phase"
      [] phase = "voting" -> "Voting phase"
      [] phase = "game_end" -> "Game over"
      [] OTHER -> phase

\* a notification element appended to the body; its removal is scheduled
\* with setTimeout(.., 3000)
showNotification(d, message, arg, type) ==
    [d EXCEPT !.notifications = Append(@, [message |-> message, arg |-> arg, type |-> type])]

\* the callback showNotification scheduled first runs: its element is removed
removeNotification(d) == [d EXCEPT !.notifications = Tail(@)]

\* find(p => p.id === playerId), as a sequence of length 0 or 1
FindPlayer(players, id) ==
    LET hits == {i \in 1..Len(players) : players[i].id = id}
    IN IF hits = {} THEN <<>>
       ELSE <<players[CHOOSE i \in hits : \A j \in hits : i <= j]>>

\* getCurrentPlayer taking the first player of the snapshot when playerId
\* is null
getCurrentPlayerFirst(g) ==
    IF g.gameState = NullState THEN <<>>
    ELSE IF g.playerId = Null THEN SubSeq(g.gameState.players, 1, 1)
    ELSE FindPlayer(g.gameState.players, g.playerId)

getCurrentPlayer(g) ==
    IF g.gameState = NullState \/ g.playerId = Null THEN <<>>
    ELSE FindPlayer(g.gameState.players, g.playerId)

Min(a, b) == IF a <= b THEN a ELSE b
Max(a, b) == IF a >= b THEN a ELSE b

\* createSuspicionBar with the level written into the width as it is
createSuspicionBarUnclamped(level) == [class |-> "suspicion", width |-> level]

\* the progress bar: its class and the percentage of style="width: ..%"
createSuspicionBar(level) == [class |-> "suspicion", width |-> Min(100, Max(0, level))]

createTrustBar(level) == [class |-> "trust", width |-> Min(100, Max(0, level))]

updatePlayerList(u) ==
    LET ps == u.game.gameState.players
    IN [u EXCEPT !.dom.playerList =
            [i \in 1..Len(ps) |->
                [playerId |-> ps[i].id, name |-> ps[i].name, money |-> ps[i].money,
                 suspicionBar |-> createSuspicionBar(ps[i].suspicion_level),
                 trustBar |-> createTrustBar(ps[i].trust_level),
                 eliminated |-> ~ps[i].is_alive, selected |-> FALSE]]]

updateStockMarket(u) ==
    LET sm == u.game.gameState.stock_market
    IN IF ~Present(sm) THEN u
       ELSE LET st == Value(sm).stocks
            IN [u EXCEPT
                  !.dom.stockList = [i \in 1..Len(st) |->
                        [symbol |-> st[i].symbol, price |-> st[i].current_price,
                         volume |-> st[i].volume]],
                  !.dom.stockSelect = [options |-> <<"">> \o [i \in 1..Len(st) |-> st[i].symbol],
                                       value |-> ""]]

updatePlayerInfo(u) ==
    LET cur == getCurrentPlayer(u.game)
    IN IF cur = <<>> THEN u
       ELSE [u EXCEPT !.dom.playerMoney = <<cur[1].money>>,
                      !.dom.playerRole = cur[1].role]

updateCards(u) ==
    LET cur == getCurrentPlayer(u.game)
    IN IF cur = <<>>
       THEN [u EXCEPT !.dom.playerCards = [placeholder |-> TRUE, items |-> <<>>]]
       ELSE [u EXCEPT !.dom.playerCards =
                [placeholder |-> FALSE,
                 items |-> [i \in 1..Len(cur[1].cards) |->
                              [cardId |-> cur[1].cards[i].card_id,
                               name |-> cur[1].cards[i].name, selected |-> FALSE]]]]

\* message.<name>, "" when the message has no such field
Field(m, name) == IF name \in DOMAIN m THEN m[name] ELSE ""

\* value || fallback for a string
Or(value, fallback) == IF value = "" THEN fallback ELSE value

\* addMessage(message, scroll): one element appended to #messages
addMessage(d, m) ==
    [d EXCEPT !.messages = Append(@,
        [class |-> Or(Field(m, "type"), "chat"),
         player |-> IF Field(m, "type") = "system" THEN ""
                    ELSE Or(Field(m, "player_name"), "system-name"),
         content |-> m.message])]

RECURSIVE AddMessages(_, _)
AddMessages(d, ms) ==
    IF ms = <<>> THEN d ELSE AddMessages(addMessage(d, Head(ms)), Tail(ms))

updateMessages(u) ==
    [u EXCEPT !.dom = AddMessages([u.dom EXCEPT !.messages = <<>>],
                                  u.game.gameState.messages)]

Pad2(n) == IF n < 10 THEN "0" \o ToString(n) ELSE ToString(n)

\* `${minutes}:${remainingSeconds.toString().padStart(2, '0')}`
TimerText(seconds) == [mm |-> ToString(seconds \div 60), ss |-> Pad2(seconds % 60)]

ZeroText == [mm |-> "00", ss |-> "00"]

\* updateTimer scheduling itself again without counting down
updateTimerNoDecrement(u, seconds) ==
    IF seconds > 0
    THEN [u EXCEPT !.dom.phaseTimer = TimerText(seconds),
                   !.timers = Append(@, seconds)]
    ELSE [u EXCEPT !.dom.phaseTimer = ZeroText]

\* the closure updateTimer of startTimer, run with the closure's seconds
updateTimer(u, seconds) ==
    IF seconds > 0
    THEN [u EXCEPT !.dom.phaseTimer = TimerText(seconds),
                   !.timers = Append(@, seconds - 1)]
    ELSE [u EXCEPT !.dom.phaseTimer = ZeroText]

startTimer(u, seconds) == updateTimer(u, seconds)

\* updatePhaseUI without hiding the other panels first
updatePhaseUIKeepsPanels(d, phase) ==
    [d EXCEPT !.panels = IF phase \in d.panelIds THEN @ \cup {phase} ELSE @]

updatePhaseUI(d, phase) ==
    [d EXCEPT !.panels = IF phase \in d.panelIds THEN {phase} ELSE {}]

updatePhaseInfo(u) ==
    LET gs == u.game.gameState
        a == [u EXCEPT !.dom.currentPhase = getPhaseText(gs.phase),
                       !.dom.currentRound = <<gs.round>>]
        b == IF Truthy(gs.time_remaining) THEN startTimer(a, Value(gs.time_remaining)) ELSE a
    IN [b EXCEPT !.dom = updatePhaseUI(b.dom, gs.phase)]

RECURSIVE VoteItems(_, _)
VoteItems(votes, players) ==
    IF votes = <<>> THEN <<>>
    ELSE LET t == FindPlayer(players, Head(votes).target)
             rest == VoteItems(Tail(votes), players)
         IN IF t = <<>> THEN rest
            ELSE <<[target |-> t[1].name, count |-> Len(Head(votes).voters)]>> \o rest

updateVotes(u) ==
    LET gs == u.game.gameState
    IN IF gs.votes = <<>>
       THEN [u EXCEPT !.dom.voteResults = [placeholder |-> TRUE, items |-> <<>>]]
       ELSE [u EXCEPT !.dom.voteResults =
                [placeholder |-> FALSE, items |-> VoteItems(gs.votes, gs.players)]]

updateUI(u) ==
    IF u.game.gameState = NullState THEN u
    ELSE updateVotes(updatePhaseInfo(updateMessages(updateCards(
            updatePlayerInfo(updateStockMarket(updatePlayerList(u)))))))

-----------------------------------------------------------------------------
(* What a handler leaves behind: the page state u, whether it ended by an
   uncaught exception, and the socket.emit calls it made. *)

Done(u) == [u |-> u, threw |-> FALSE, emit |-> <<>>]
Threw(u) == [u |-> u, threw |-> TRUE, emit |-> <<>>]
Emitted(u, type, data) == [u |-> u, threw |-> FALSE, emit |-> <<[type |-> type, data |-> data]>>]

-----------------------------------------------------------------------------
(* User operations *)

\* the guard without its amount <= 0 half
AmountRejectedFalsyOnly(amount) == NumFalsy(amount)

\* the guard of makeInvestment and sellStock on the parsed amount:
\* !amount || amount <= 0
AmountRejected(amount) == NumFalsy(amount) \/ NumLeq(amount, 0)

makeInvestment(u) ==
    LET stockSymbol == u.dom.stockSelect.value
        amount == ParseFloat(u.dom.investAmount)
    IN IF stockSymbol = ""
       THEN Done([u EXCEPT !.dom = showNotification(@, "select-stock", "", "warning")])
       ELSE IF AmountRejected(amount)
       THEN Done([u EXCEPT !.dom = showNotification(@, "invalid-invest-amount", "", "warning")])
       ELSE Emitted(u, "invest", [game_id |-> u.game.gameId, stock_symbol |-> stockSymbol,
                                  amount |-> amount, action |-> "buy"])

sellStock(u) ==
    LET stockSymbol == u.dom.stockSelect.value
        amount == ParseFloat(u.dom.sellAmount)
    IN IF stockSymbol = ""
       THEN Done([u EXCEPT !.dom = showNotification(@, "select-stock", "", "warning")])
       ELSE IF AmountRejected(amount)
       THEN Done([u EXCEPT !.dom = showNotification(@, "invalid-sell-amount", "", "warning")])
       ELSE Emitted(u, "invest", [game_id |-> u.game.gameId, stock_symbol |-> stockSymbol,
                                  amount |-> amount, action |-> "sell"])

\* !this.selectedCard, !this.selectedTarget: null and "" are falsy
Unset(v) == v = Null \/ v = ""

\* useCard sending no target
useCardWithoutTarget(u) ==
    IF Unset(u.game.selectedCard)
    THEN Done([u EXCEPT !.dom = showNotification(@, "select-card", "", "warning")])
    ELSE Emitted(u, "use_card", [game_id |-> u.game.gameId,
                                 card_id |-> u.game.selectedCard,
                                 target_player_id |-> Null])

useCard(u) ==
    IF Unset(u.game.selectedCard)
    THEN Done([u EXCEPT !.dom = showNotification(@, "select-card", "", "warning")])
    ELSE Emitted(u, "use_card", [game_id |-> u.game.gameId,
                                 card_id |-> u.game.selectedCard,
                                 target_player_id |-> u.game.selectedTarget])

vote(u) ==
    IF Unset(u.game.selectedTarget)
    THEN Done([u EXCEPT !.dom = showNotification(@, "select-vote-target", "", "warning")])
    ELSE Emitted(u, "vote", [game_id |-> u.game.gameId,
                             target_player_id |-> u.game.selectedTarget])

nextPhase(u) == Emitted(u, "next_phase", [game_id |-> u.game.gameId])

sendMessage(u) ==
    LET message == Trim(u.dom.messageInput)
    IN IF message = <<>> THEN Done(u)
       ELSE [Emitted(u, "send_message", [game_id |-> u.game.gameId, message |-> message])
                EXCEPT !.u.dom.messageInput = <<>>]

\* the keypress listener of #message-input
onKeyPress(u, key) == IF key = "Enter" THEN sendMessage(u) ELSE Done(u)

Deselect(items) == [i \in 1..Len(items) |-> [items[i] EXCEPT !.selected = FALSE]]

\* selectCard(cardElement); the element is item i of the card-item elements of
\* the page markup (where = "page") or of #player-cards (where = "hand")
selectCard(u, where, i) ==
    LET clear == [u EXCEPT !.dom.pageCards = Deselect(@),
                           !.dom.playerCards.items = Deselect(@)]
        el == IF where = "page" THEN u.dom.pageCards[i] ELSE u.dom.playerCards.items[i]
        mark == IF where = "page"
                THEN [clear EXCEPT !.dom.pageCards[i].selected = TRUE]
                ELSE [clear EXCEPT !.dom.playerCards.items[i].selected = TRUE]
    IN Done([mark EXCEPT !.game.selectedCard = el.cardId])

\* selectPlayer keeping a target that is already set
selectPlayerKeepsFirst(u, i) ==
    LET clear == [u EXCEPT !.dom.playerList = Deselect(@)]
    IN Done([clear EXCEPT !.dom.playerList[i].selected = TRUE,
                          !.game.selectedTarget =
                              IF @ = Null THEN u.dom.playerList[i].playerId ELSE @])

\* selectPlayer(playerElement); the element is item i of #player-list
selectPlayer(u, i) ==
    LET clear == [u EXCEPT !.dom.playerList = Deselect(@)]
    IN Done([clear EXCEPT !.dom.playerList[i].selected = TRUE,
                          !.game.selectedTarget = u.dom.playerList[i].playerId])

\* the document's change listener; updateStockInfo is not a method of the
\* class, so the call after the assignment throws a TypeError
onChange(u, name, value) ==
    IF name = "stock-select"
    THEN Threw([u EXCEPT !.game.selectedStock = value])
    ELSE Done(u)

clearInvestmentForm(d) == [d EXCEPT !.investAmount = <<>>, !.sellAmount = <<>>]

clearCardSelection(u) ==
    [u EXCEPT !.dom.pageCards = Deselect(@),
              !.dom.playerCards.items = Deselect(@),
              !.game.selectedCard = Null]

-----------------------------------------------------------------------------
(* Socket event handlers and loadGameState *)

ResultType(data) == IF data.success THEN "success" ELSE "error"

\* the listener dropping the selected target when it re-renders the lists
onGameStateUpdateDropsTarget(u, data) ==
    Done(updateUI([u EXCEPT !.game.gameState = data, !.game.selectedTarget = Null]))

onGameStateUpdate(u, data) == Done(updateUI([u EXCEPT !.game.gameState = data]))

onNewMessage(u, data) == Done([u EXCEPT !.dom = addMessage(@, data)])

\* the listener clearing the form whatever the result
onInvestmentResultAlwaysClears(u, data) ==
    LET a == [u EXCEPT !.dom = showNotification(@, data.message, "", ResultType(data))]
    IN Done([a EXCEPT !.dom = clearInvestmentForm(@)])

onInvestmentResult(u, data) ==
    LET a == [u EXCEPT !.dom = showNotification(@, data.message, "", ResultType(data))]
    IN Done(IF data.success THEN [a EXCEPT !.dom = clearInvestmentForm(@)] ELSE a)

onCardUseResult(u, data) ==
    LET a == [u EXCEPT !.dom = showNotification(@, data.message, "", ResultType(data))]
    IN Done(IF data.success THEN clearCardSelection(a) ELSE a)

onVoteResult(u, data) ==
    Done([u EXCEPT !.dom = showNotification(@, data.message, "", ResultType(data))])

onPhaseChange(u, data) ==
    LET a == showNotification(u.dom, "phase-entered", getPhaseText(data.phase), "info")
    IN Done([u EXCEPT !.dom = updatePhaseUI(a, data.phase)])

\* the final list is read from this.gameState.players, not from data.players,
\* and goes to the first element with id final-player-list
showGameEndModal(u, data) ==
    LET modal == [winner |-> data.winner, eliminated |-> data.eliminated, finalPlayers |-> <<>>]
        a == [u EXCEPT !.dom.modals = Append(@, modal)]
    IN IF u.game.gameState = NullState THEN Threw(a)
       ELSE LET ps == u.game.gameState.players
            IN Done([a EXCEPT !.dom.modals[1].finalPlayers =
                        @ \o [i \in 1..Len(ps) |->
                                [name |-> ps[i].name, role |-> ps[i].role, money |-> ps[i].money]]])

onGameEnd(u, data) == showGameEndModal(u, data)

\* loadGameState after the awaits: r is the outcome of fetch and response.json
loadGameStateResume(u, r) ==
    IF r.kind = "throw"
    THEN Done([u EXCEPT !.dom = showNotification(@, "load-failed", "", "error")])
    ELSE IF r.kind = "error"
    THEN Done([u EXCEPT !.dom = showNotification(@, r.error, "", "error")])
    ELSE Done(updateUI([u EXCEPT !.game.gameState = r.data]))

-----------------------------------------------------------------------------
(* The engine, from the specification: GamePhaseMachine, VoteTally,
   CardDeck, the snapshot read endpoint and the socket broadcasts. *)

\* the player the session gateway binds this connection to
LocalPlayer == "p1"

SrvPlayers ==
    << [id |-> "p1", name |-> "Ann", role |-> "normal", money |-> 1000, is_alive |-> TRUE,
        suspicion_level |-> 10, trust_level |-> 50,
        cards |-> <<[card_id |-> "c1", name |-> "Rumor"]>>],
       [id |-> "p2", name |-> "Bob", role |-> "undercover", money |-> 1000, is_alive |-> TRUE,
        suspicion_level |-> 60, trust_level |-> 40,
        cards |-> <<>>] >>

SrvStocks == << [symbol |-> "AAA", name |-> "Alpha", current_price |-> 10, volume |-> 0] >>

SrvPhaseTime(phase) ==
    IF phase \in {"investment", "discussion", "voting"} THEN <<MaxTime>>
    ELSE IF phase = "waiting" THEN <<>> ELSE <<0>>

SrvSnapshot0(phase) ==
    [players |-> SrvPlayers, stock_market |-> <<[stocks |-> SrvStocks]>>, messages |-> <<>>,
     phase |-> phase, round |-> 1, votes |-> <<>>, time_remaining |-> SrvPhaseTime(phase)]

\* waiting -> investment -> discussion -> voting -> (investment | game_end)
SrvNextPhases(phase) ==
    CASE phase = "waiting" -> {"investment"}
      [] phase = "investment" -> {"discussion"}
      [] phase = "discussion" -> {"voting"}
      [] phase = "voting" -> {"investment", "game_end"}
      [] OTHER -> {}

SrvAdvanced(snap, next) ==
    [snap EXCEPT !.phase = next,
                 !.round = IF snap.phase = "voting" /\ next = "investment" THEN @ + 1 ELSE @,
                 !.votes = IF snap.phase = "voting" THEN <<>> ELSE @,
                 !.time_remaining = SrvPhaseTime(next)]

\* one vote per voter: a new vote replaces the voter's earlier one
SrvVoted(snap, voter, target) ==
    LET strip == [i \in 1..Len(snap.votes) |->
                    [snap.votes[i] EXCEPT !.voters = SelectSeq(@, LAMBDA v : v # voter)]]
        kept == SelectSeq(strip, LAMBDA e : e.voters # <<>>)
        at == {i \in 1..Len(kept) : kept[i].target = target}
    IN [snap EXCEPT !.votes =
            IF at = {} THEN Append(kept, [target |-> target, voters |-> <<voter>>])
            ELSE [i \in 1..Len(kept) |->
                    IF i \in at THEN [kept[i] EXCEPT !.voters = Append(@, voter)] ELSE kept[i]]]

SrvHand(snap, pid) == FindPlayer(snap.players, pid)[1].cards

SrvCardUsed(snap, pid, cardId) ==
    [snap EXCEPT !.players =
        [i \in 1..Len(@) |->
            IF @[i].id = pid
            THEN [@[i] EXCEPT !.cards = SelectSeq(@, LAMBDA c : c.card_id # cardId)]
            ELSE @[i]]]

SrvInvested(snap, symbol) ==
    [snap EXCEPT !.stock_market[1].stocks =
        [i \in 1..Len(@) |->
            IF @[i].symbol = symbol THEN [@[i] EXCEPT !.volume = @ + 1] ELSE @[i]]]

Event(type, data) == [type |-> type, data |-> data]
Result(ok, message) == [success |-> ok, message |-> message]

\* every order in which the events of a set can be sent
Orderings(S) ==
    {f \in [1..Cardinality(S) -> S] : \A i, j \in 1..Cardinality(S) : f[i] = f[j] => i = j}

\* the engine commits snap, answers the caller with `reply` and, when
\* `events` holds a snapshot, broadcasts to the subscribers
SrvCommit(snap, reply, events) ==
    LET sent == IF srv.subscribed THEN events ELSE <<>>
        made == SelectSeq(events, LAMBDA e : e.type = "game_state_update")
        snaps == SelectSeq(sent, LAMBDA e : e.type = "game_state_update")
    IN /\ Len(inbox) < MaxBacklog
       /\ srv' = [srv EXCEPT !.snap = snap,
                             !.issued = @ + Len(made),
                             !.lastIssued = IF snaps = <<>> THEN @ ELSE snaps[Len(snaps)].data]
       /\ inbox' = inbox \o reply \o sent

SnapshotEvent(snap) == Event("game_state_update", snap)

SrvCanIssue == srv.issued < MaxSnapshots

-----------------------------------------------------------------------------
(* Initial states *)

\* texts typed into the amount fields by the actions of Spec
AmountTexts == { <<>>, <<"3">>, <<"-", "3">> }

\* texts typed into #message-input
MessageTexts == { <<>>, <<"\t", NoBreakSpace>>, <<VerticalTab, "a", " ">> }

GameInit0 ==
    [gameId |-> GameId, playerId |-> Null, playerName |-> Null, gameState |-> NullState,
     selectedStock |-> Null, selectedCard |-> Null, selectedTarget |-> Null]

DomInit0(markup) ==
    [playerList |-> <<>>, stockList |-> <<>>,
     stockSelect |-> [options |-> <<"">>, value |-> ""],
     investAmount |-> <<>>, sellAmount |-> <<>>,
     playerMoney |-> <<>>, playerRole |-> "",
     playerCards |-> [placeholder |-> FALSE, items |-> <<>>],
     pageCards |-> PageCards(markup),
     messageInput |-> <<>>,
     messages |-> <<>>, currentPhase |-> "", currentRound |-> <<>>,
     phaseTimer |-> [mm |-> "", ss |-> ""],
     panelIds |-> PanelPhases(markup),
     panels |-> PanelPhases(markup),
     voteResults |-> [placeholder |-> FALSE, items |-> <<>>],
     notifications |-> <<>>,
     modals |-> <<>>]

LobbyInit0 ==
    [createPlayerName |-> <<>>, maxPlayers |-> <<>>, joinPlayerName |-> <<>>, gameId |-> <<>>,
     notifications |-> <<>>,
     location |-> <<"/">>]

\* the page after the constructor: join_game emitted, listeners installed,
\* the fetch of loadGameState sent; the game may be in any phase but the last
GameInit ==
    /\ game = GameInit0
    /\ \E markup \in {PlainMarkup, FullMarkup} : dom = DomInit0(markup)
    /\ timers = <<>>
    /\ uncaught = {}
    /\ outbox = <<[type |-> "join_game", data |-> [game_id |-> GameId]]>>
    /\ inbox = <<>>
    /\ fetch = [pc |-> "sent"]
    /\ \E ph \in Phases \ {"game_end"} :
          srv = [snap |-> SrvSnapshot0(ph), issued |-> 0, lastIssued |-> NullState,
                 subscribed |-> FALSE]

LobbyIdle ==
    /\ lobby = LobbyInit0
    /\ requests = <<>>

Init == GameInit /\ LobbyIdle

\* the page once join_game was consumed and loadGameState has rendered the
\* snapshot of a game in phase ph
LoadedPage(markup, ph) ==
    loadGameStateResume([game |-> GameInit0, dom |-> DomInit0(markup), timers |-> <<>>],
                        [kind |-> "ok", data |-> SrvSnapshot0(ph)]).u

LoadedInit ==
    /\ \E markup \in {PlainMarkup, CardMarkup}, ph \in Phases \ {"game_end"} :
          /\ game = LoadedPage(markup, ph).game
          /\ dom = LoadedPage(markup, ph).dom
          /\ timers = LoadedPage(markup, ph).timers
          /\ srv = [snap |-> SrvSnapshot0(ph), issued |-> 0, lastIssued |-> SrvSnapshot0(ph),
                    subscribed |-> TRUE]
    /\ uncaught = {}
    /\ outbox = <<>>
    /\ inbox = <<>>
    /\ fetch = [pc |-> "done"]
    /\ LobbyIdle

-----------------------------------------------------------------------------
(* Actions of the game page *)

U == [game |-> game, dom |-> dom, timers |-> timers]

\* handler `name` ran with outcome r
Ran(name, r) ==
    /\ Len(outbox) + Len(r.emit) <= MaxOutbox
    /\ Len(r.u.dom.notifications) <= MaxNotifications
    /\ game' = r.u.game
    /\ dom' = r.u.dom
    /\ timers' = r.u.timers
    /\ outbox' = outbox \o r.emit
    /\ uncaught' = IF r.threw THEN uncaught \cup {name} ELSE uncaught

\* the user types into #invest-amount or #sell-amount; the change event that
\* follows carries another name than stock-select
TypeInvestAmount ==
    /\ \E t \in AmountTexts :
          Ran("change", onChange([U EXCEPT !.dom.investAmount = t], "invest-amount", t))
    /\ UNCHANGED <<inbox, fetch, srv, lobbyVars>>

TypeSellAmount ==
    /\ \E t \in AmountTexts :
          Ran("change", onChange([U EXCEPT !.dom.sellAmount = t], "sell-amount", t))
    /\ UNCHANGED <<inbox, fetch, srv, lobbyVars>>

\* the user picks option i of #stock-select
ChooseStock ==
    /\ \E i \in 1..Len(dom.stockSelect.options) :
          LET v == dom.stockSelect.options[i]
          IN Ran("change", onChange([U EXCEPT !.dom.stockSelect.value = v], "stock-select", v))
    /\ UNCHANGED <<inbox, fetch, srv, lobbyVars>>

MakeInvestment ==
    /\ Ran("makeInvestment", makeInvestment(U))
    /\ UNCHANGED <<inbox, fetch, srv, lobbyVars>>

SellStock ==
    /\ Ran("sellStock", sellStock(U))
    /\ UNCHANGED <<inbox, fetch, srv, lobbyVars>>

UseCard ==
    /\ Ran("useCard", useCard(U))
    /\ UNCHANGED <<inbox, fetch, srv, lobbyVars>>

Vote ==
    /\ Ran("vote", vote(U))
    /\ UNCHANGED <<inbox, fetch, srv, lobbyVars>>

NextPhase ==
    /\ Ran("nextPhase", nextPhase(U))
    /\ UNCHANGED <<inbox, fetch, srv, lobbyVars>>

SelectCard ==
    /\ \/ \E i \in 1..Len(dom.pageCards) : Ran("selectCard", selectCard(U, "page", i))
       \/ \E i \in 1..Len(dom.playerCards.items) : Ran("selectCard", selectCard(U, "hand", i))
    /\ UNCHANGED <<inbox, fetch, srv, lobbyVars>>

SelectPlayer ==
    /\ \E i \in 1..Len(dom.playerList) : Ran("selectPlayer", selectPlayer(U, i))
    /\ UNCHANGED <<inbox, fetch, srv, lobbyVars>>

\* the user types into #message-input
TypeMessage ==
    /\ \E t \in MessageTexts :
          Ran("change", onChange([U EXCEPT !.dom.messageInput = t], "message-input", t))
    /\ UNCHANGED <<inbox, fetch, srv, lobbyVars>>

\* a click on #send-message-btn
SendMessage ==
    /\ Ran("sendMessage", sendMessage(U))
    /\ UNCHANGED <<inbox, fetch, srv, lobbyVars>>

\* a key pressed in #message-input
PressKey ==
    /\ \E key \in {"Enter", "a"} : Ran("keypress", onKeyPress(U, key))
    /\ UNCHANGED <<inbox, fetch, srv, lobbyVars>>

\* the oldest pending setTimeout(() => notification.remove(), 3000) fires
NotificationRemoved ==
    /\ dom.notifications # <<>>
    /\ Ran("removeNotification", Done([U EXCEPT !.dom = removeNotification(@)]))
    /\ UNCHANGED <<inbox, fetch, srv, lobbyVars>>

\* the oldest pending setTimeout(updateTimer, 1000) fires
Tick ==
    /\ timers # <<>>
    /\ Ran("updateTimer", Done(updateTimer([U EXCEPT !.timers = Tail(@)], Head(timers))))
    /\ UNCHANGED <<inbox, fetch, srv, lobbyVars>>

\* the socket delivers the oldest event to its listener
Handle(type, r) ==
    /\ inbox # <<>>
    /\ Head(inbox).type = type
    /\ Ran(type, r)
    /\ inbox' = Tail(inbox)
    /\ UNCHANGED <<fetch, srv, lobbyVars>>

Arrived(type) == inbox # <<>> /\ Head(inbox).type = type

GameStateUpdate ==
    Arrived("game_state_update")
        /\ Handle("game_state_update", onGameStateUpdate(U, Head(inbox).data))
NewMessage ==
    Arrived("new_message") /\ Handle("new_message", onNewMessage(U, Head(inbox).data))
InvestmentResult ==
    Arrived("investment_result")
        /\ Handle("investment_result", onInvestmentResult(U, Head(inbox).data))
CardUseResult ==
    Arrived("card_use_result")
        /\ Handle("card_use_result", onCardUseResult(U, Head(inbox).data))
VoteResult ==
    Arrived("vote_result") /\ Handle("vote_result", onVoteResult(U, Head(inbox).data))
PhaseChange ==
    Arrived("phase_change") /\ Handle("phase_change", onPhaseChange(U, Head(inbox).data))
GameEnd ==
    Arrived("game_end") /\ Handle("game_end", onGameEnd(U, Head(inbox).data))

\* the response of /api/game_state/<id> reaches loadGameState
LoadGameStateResume ==
    /\ fetch.pc = "answered"
    /\ Ran("loadGameState", loadGameStateResume(U, fetch.response))
    /\ fetch' = [pc |-> "done"]
    /\ UNCHANGED <<inbox, srv, lobbyVars>>

-----------------------------------------------------------------------------
(* Actions of the engine and of the network *)

Received(type) == outbox # <<>> /\ Head(outbox).type = type

ClientIdle == UNCHANGED <<game, dom, timers, uncaught, lobbyVars>>

\* join_game(game_id): the caller is subscribed to the game's event stream
SrvJoin ==
    /\ Received("join_game")
    /\ srv' = [srv EXCEPT !.subscribed = TRUE]
    /\ outbox' = Tail(outbox)
    /\ UNCHANGED <<inbox, fetch>>
    /\ ClientIdle

\* a phase transition: phase_change, a fresh snapshot and, on the last
\* transition, game_end; the specification fixes no order among them
SrvAdvance ==
    /\ SrvCanIssue
    /\ \E next \in SrvNextPhases(srv.snap.phase) :
          LET snap == SrvAdvanced(srv.snap, next)
              evs == {Event("phase_change", [phase |-> next]), SnapshotEvent(snap)}
                       \cup (IF next = "game_end"
                             THEN {Event("game_end", [winner |-> "normal", eliminated |-> "Bob",
                                                       players |-> snap.players])}
                             ELSE {})
          IN \E o \in Orderings(evs) : SrvCommit(snap, <<>>, o)

\* next_phase(game_id) from this client
SrvNextPhase ==
    /\ Received("next_phase")
    /\ SrvAdvance
    /\ outbox' = Tail(outbox)
    /\ UNCHANGED fetch
    /\ ClientIdle

\* the phase timer expires, or another player sends next_phase
SrvTimeout ==
    /\ SrvAdvance
    /\ UNCHANGED <<outbox, fetch>>
    /\ ClientIdle

\* invest(game_id, stock_symbol, amount, action)
SrvInvest ==
    /\ Received("invest")
    /\ \/ /\ srv.snap.phase # "investment"
          /\ SrvCommit(srv.snap, <<Event("investment_result", Result(FALSE, "StateError"))>>, <<>>)
       \/ /\ srv.snap.phase = "investment"
          /\ SrvCommit(srv.snap, <<Event("investment_result", Result(FALSE, "ResourceError"))>>, <<>>)
       \/ /\ srv.snap.phase = "investment"
          /\ SrvCanIssue
          /\ LET snap == SrvInvested(srv.snap, Head(outbox).data.stock_symbol)
             IN SrvCommit(snap, <<Event("investment_result", Result(TRUE, "ok"))>>,
                          <<SnapshotEvent(snap)>>)
    /\ outbox' = Tail(outbox)
    /\ UNCHANGED fetch
    /\ ClientIdle

\* use_card(game_id, card_id, target_player_id?)
SrvUseCard ==
    /\ Received("use_card")
    /\ LET cardId == Head(outbox).data.card_id
           held == \E i \in 1..Len(SrvHand(srv.snap, LocalPlayer)) :
                      SrvHand(srv.snap, LocalPlayer)[i].card_id = cardId
       IN \/ /\ ~held
             /\ SrvCommit(srv.snap, <<Event("card_use_result", Result(FALSE, "CardNotFound"))>>, <<>>)
          \/ /\ held
             /\ SrvCanIssue
             /\ LET snap == SrvCardUsed(srv.snap, LocalPlayer, cardId)
                IN SrvCommit(snap, <<Event("card_use_result", Result(TRUE, "ok"))>>,
                             <<SnapshotEvent(snap)>>)
    /\ outbox' = Tail(outbox)
    /\ UNCHANGED fetch
    /\ ClientIdle

\* vote(game_id, target_player_id)
SrvVote ==
    /\ Received("vote")
    /\ LET target == Head(outbox).data.target_player_id
       IN \/ /\ srv.snap.phase # "voting" \/ target \notin PlayerIds
             /\ SrvCommit(srv.snap, <<Event("vote_result", Result(FALSE, "StateError"))>>, <<>>)
          \/ /\ srv.snap.phase = "voting"
             /\ target \in PlayerIds
             /\ SrvCanIssue
             /\ LET snap == SrvVoted(srv.snap, LocalPlayer, target)
                IN SrvCommit(snap, <<Event("vote_result", Result(TRUE, "ok"))>>,
                             <<SnapshotEvent(snap)>>)
    /\ outbox' = Tail(outbox)
    /\ UNCHANGED fetch
    /\ ClientIdle

\* the messages the engine relays: chat of a named player, chat without a
\* player name, a system message, a message without a type
SrvMessages(text) ==
    { [type |-> "chat", player_name |-> "Bob", message |-> text],
      [type |-> "chat", player_name |-> "", message |-> text],
      [type |-> "system", player_name |-> "", message |-> text],
      [type |-> "", player_name |-> "Bob", message |-> text] }

\* send_message from another player: appended and broadcast as new_message
SrvChat ==
    /\ Len(srv.snap.messages) < MaxMessages
    /\ \E m \in SrvMessages(<<"h", "i">>) :
          SrvCommit([srv.snap EXCEPT !.messages = Append(@, m)], <<>>,
                    <<Event("new_message", m)>>)
    /\ UNCHANGED <<outbox, fetch>>
    /\ ClientIdle

\* send_message(game_id, message) from this client
SrvSendMessage ==
    /\ Received("send_message")
    /\ Len(srv.snap.messages) < MaxMessages
    /\ LET m == [type |-> "chat", player_name |-> "Ann", message |-> Head(outbox).data.message]
       IN SrvCommit([srv.snap EXCEPT !.messages = Append(@, m)], <<>>,
                    <<Event("new_message", m)>>)
    /\ outbox' = Tail(outbox)
    /\ UNCHANGED fetch
    /\ ClientIdle

\* the read endpoint answers the fetch: the current snapshot, {error}, or
\* the request fails
SrvServeFetch ==
    /\ fetch.pc = "sent"
    /\ \/ /\ fetch' = [pc |-> "answered", response |-> [kind |-> "ok", data |-> srv.snap]]
          /\ srv' = [srv EXCEPT !.lastIssued = srv.snap]
       \/ /\ fetch' = [pc |-> "answered", response |-> [kind |-> "error", error |-> "NotFound"]]
          /\ UNCHANGED srv
       \/ /\ fetch' = [pc |-> "answered", response |-> [kind |-> "throw"]]
          /\ UNCHANGED srv
    /\ UNCHANGED <<outbox, inbox>>
    /\ ClientIdle

-----------------------------------------------------------------------------
(* The game page with its engine *)

UserNext ==
    \/ TypeInvestAmount \/ TypeSellAmount \/ ChooseStock
    \/ MakeInvestment \/ SellStock \/ UseCard \/ Vote \/ NextPhase
    \/ SelectCard \/ SelectPlayer
    \/ TypeMessage \/ SendMessage \/ PressKey

EventNext ==
    \/ GameStateUpdate \/ NewMessage \/ InvestmentResult \/ CardUseResult
    \/ VoteResult \/ PhaseChange \/ GameEnd \/ LoadGameStateResume \/ Tick
    \/ NotificationRemoved

SrvNext ==
    \/ SrvJoin \/ SrvNextPhase \/ SrvTimeout \/ SrvInvest \/ SrvUseCard
    \/ SrvVote \/ SrvChat \/ SrvSendMessage \/ SrvServeFetch

Next == UserNext \/ EventNext \/ SrvNext

Spec == Init /\ [][Next]_vars

\* the page kept in step with the engine: snapshots, phase changes, the end
\* of the game and the countdown
SyncNext ==
    \/ NextPhase \/ GameStateUpdate \/ PhaseChange \/ GameEnd
    \/ LoadGameStateResume \/ Tick \/ NotificationRemoved
    \/ SrvJoin \/ SrvNextPhase \/ SrvTimeout \/ SrvServeFetch

SyncSpec == Init /\ [][SyncNext]_vars

\* selecting a card and a player, playing the card, voting
SelectNext ==
    \/ SelectCard \/ SelectPlayer \/ UseCard \/ Vote
    \/ CardUseResult \/ VoteResult \/ GameStateUpdate \/ Tick
    \/ NotificationRemoved
    \/ SrvUseCard \/ SrvVote

SelectSpec == LoadedInit /\ [][SelectNext]_vars

\* the three commands that are answered by a result event
ResultNext ==
    \/ TypeInvestAmount \/ ChooseStock \/ MakeInvestment
    \/ SelectCard \/ SelectPlayer \/ UseCard \/ Vote
    \/ InvestmentResult \/ CardUseResult \/ VoteResult
    \/ GameStateUpdate \/ NotificationRemoved
    \/ SrvInvest \/ SrvUseCard \/ SrvVote

ResultSpec == LoadedInit /\ [][ResultNext]_vars

\* the investment form holding any typed text
\* amounts at the ends of the range of a double: Infinity, 1.8e308 beyond
\* the greatest double, 2e-324 below half the least positive one, 3e-324
\* above it, and 3 after a vertical tab
RangeTexts ==
    { InfinityText,
      <<"1", ".", "8", "e", "3", "0", "8">>,
      <<"2", "e", "-", "3", "2", "4">>,
      <<"3", "e", "-", "3", "2", "4">>,
      <<VerticalTab, "3">> }

FormInit ==
    /\ \E ph \in {"investment", "voting"}, t \in Texts \cup RangeTexts,
          field \in {"invest", "sell"} :
          /\ game = LoadedPage(PlainMarkup, ph).game
          /\ dom = [LoadedPage(PlainMarkup, ph).dom EXCEPT
                        !.investAmount = IF field = "invest" THEN t ELSE <<>>,
                        !.sellAmount = IF field = "sell" THEN t ELSE <<>>]
          /\ timers = LoadedPage(PlainMarkup, ph).timers
          /\ srv = [snap |-> SrvSnapshot0(ph), issued |-> 0, lastIssued |-> SrvSnapshot0(ph),
                    subscribed |-> TRUE]
    /\ uncaught = {}
    /\ outbox = <<>>
    /\ inbox = <<>>
    /\ fetch = [pc |-> "done"]
    /\ LobbyIdle

FormNext ==
    \/ ChooseStock \/ MakeInvestment \/ SellStock
    \/ InvestmentResult \/ GameStateUpdate \/ NotificationRemoved
    \/ SrvInvest

FormSpec == FormInit /\ [][FormNext]_vars

\* the chat: typing, sending by the button or the Enter key, and the
\* messages the engine relays
ChatNext ==
    \/ TypeMessage \/ SendMessage \/ PressKey
    \/ NewMessage
    \/ SrvChat \/ SrvSendMessage

ChatSpec == LoadedInit /\ [][ChatNext]_vars

\* the loaded page with a stock chosen and an amount typed, so that the first
\* click on the invest button sends the order
FilledPage(markup, ph) ==
    LET typed == [LoadedPage(markup, ph) EXCEPT !.dom.stockSelect.value = "AAA",
                                        !.dom.investAmount = <<"3">>]
    IN onChange(onChange(typed, "stock-select", "AAA").u, "invest-amount", <<"3">>).u

FrameInit ==
    /\ \E markup \in {PlainMarkup, CardMarkup}, ph \in {"investment", "voting"} :
          /\ game = FilledPage(markup, ph).game
          /\ dom = FilledPage(markup, ph).dom
          /\ timers = FilledPage(markup, ph).timers
          /\ srv = [snap |-> SrvSnapshot0(ph), issued |-> 0, lastIssued |-> SrvSnapshot0(ph),
                    subscribed |-> TRUE]
    /\ uncaught = {"change"}
    /\ outbox = <<>>
    /\ inbox = <<>>
    /\ fetch = [pc |-> "done"]
    /\ LobbyIdle

\* the selections under every socket event that can follow them
FrameNext ==
    \/ SelectCard \/ SelectPlayer \/ UseCard \/ Vote \/ MakeInvestment
    \/ GameStateUpdate \/ PhaseChange \/ GameEnd
    \/ InvestmentResult \/ CardUseResult \/ VoteResult
    \/ Tick \/ NotificationRemoved
    \/ SrvInvest \/ SrvUseCard \/ SrvVote \/ SrvTimeout

FrameSpec == FrameInit /\ [][FrameNext]_vars

\* one countdown: a snapshot carrying any time_remaining, or none, is about
\* to be handled by the page loaded in the waiting phase; a scheduled
\* callback is run in the end, and so is a delivered event
TimedSnapshot(opt) == [SrvSnapshot0("discussion") EXCEPT !.time_remaining = opt]

TimerInit ==
    /\ game = LoadedPage(PlainMarkup, "waiting").game
    /\ dom = LoadedPage(PlainMarkup, "waiting").dom
    /\ timers = LoadedPage(PlainMarkup, "waiting").timers
    /\ \E opt \in {<<>>} \cup {<<n>> : n \in 0..MaxCountdown} :
          /\ inbox = <<SnapshotEvent(TimedSnapshot(opt))>>
          /\ srv = [snap |-> TimedSnapshot(opt), issued |-> 1,
                    lastIssued |-> TimedSnapshot(opt), subscribed |-> TRUE]
    /\ uncaught = {}
    /\ outbox = <<>>
    /\ fetch = [pc |-> "done"]
    /\ LobbyIdle

TimerNext == GameStateUpdate \/ Tick

TimerSpec == TimerInit /\ [][TimerNext]_vars /\ WF_vars(Tick) /\ WF_vars(GameStateUpdate)

\* the page from its constructor on: the fetch, the snapshots and phase
\* events, the countdown, and the local player selecting a target, voting
\* and asking for a card to be played
IdentNext ==
    \/ SelectPlayer \/ UseCard \/ Vote \/ NextPhase
    \/ GameStateUpdate \/ VoteResult
    \/ PhaseChange \/ GameEnd \/ LoadGameStateResume \/ Tick \/ NotificationRemoved
    \/ SrvJoin \/ SrvNextPhase \/ SrvTimeout \/ SrvVote \/ SrvServeFetch

IdentSpec == Init /\ [][IdentNext]_vars

\* the player list rendered from a snapshot carrying any levels: the levels
\* around both ends of the scale and one inside it
Levels == ((0 - Over)..Over) \cup {50} \cup ((100 - Over)..(100 + Over))

LevelSnapshot(s1, t1, s2, t2) ==
    [SrvSnapshot0("waiting") EXCEPT
        !.players[1].suspicion_level = s1, !.players[1].trust_level = t1,
        !.players[2].suspicion_level = s2, !.players[2].trust_level = t2]

BarInit ==
    /\ game = LoadedPage(PlainMarkup, "waiting").game
    /\ dom = LoadedPage(PlainMarkup, "waiting").dom
    /\ timers = LoadedPage(PlainMarkup, "waiting").timers
    /\ \E s1, t1, s2, t2 \in Levels :
          /\ inbox = <<SnapshotEvent(LevelSnapshot(s1, t1, s2, t2))>>
          /\ srv = [snap |-> LevelSnapshot(s1, t1, s2, t2), issued |-> 1,
                    lastIssued |-> LevelSnapshot(s1, t1, s2, t2), subscribed |-> TRUE]
    /\ uncaught = {}
    /\ outbox = <<>>
    /\ fetch = [pc |-> "done"]
    /\ LobbyIdle

BarNext == GameStateUpdate \/ SelectPlayer

BarSpec == BarInit /\ [][BarNext]_vars

-----------------------------------------------------------------------------
(* The lobby page: class GameLobby *)

GamePath == <<"/", "g", "a", "m", "e", "/">>

\* JSON.stringify of a number: NaN becomes null
JsonNumber(n) == IF n.nan \/ n.inf THEN [null |-> TRUE] ELSE n

\* GameLobby.showNotification: a notification element appended to the body;
\* its removal is scheduled with setTimeout(.., 3000)
lobbyNotification(l, message, type) ==
    [l EXCEPT !.notifications = Append(@, [message |-> message, type |-> type])]

\* the callback scheduled first runs: its element is removed
lobbyRemoveNotification(l) == [l EXCEPT !.notifications = Tail(@)]

\* the guard of createGame on the parsed field: maxPlayers < 3 || maxPlayers > 8
MaxPlayersRejected(maxPlayers) == NumLess(maxPlayers, 3) \/ NumGreater(maxPlayers, 8)

\* createGame up to its fetch: the page and the requests it sent
createGame(l) ==
    LET playerName == Trim(l.createPlayerName)
        maxPlayers == ParseInt(l.maxPlayers)
    IN IF playerName = <<>>
       THEN [l |-> lobbyNotification(l, "enter-player-name", "warning"), sent |-> <<>>]
       ELSE IF MaxPlayersRejected(maxPlayers)
       THEN [l |-> lobbyNotification(l, "max-players-range", "warning"), sent |-> <<>>]
       ELSE [l |-> l,
             sent |-> <<[api |-> "create_game", gameId |-> <<>>, response |-> <<>>,
                         body |-> [player_name |-> playerName,
                                   max_players |-> JsonNumber(maxPlayers)]]>>]

\* joinGame up to its fetch; gameId is the constant the call keeps
joinGame(l) ==
    LET playerName == Trim(l.joinPlayerName)
        gameId == Trim(l.gameId)
    IN IF playerName = <<>>
       THEN [l |-> lobbyNotification(l, "enter-player-name", "warning"), sent |-> <<>>]
       ELSE IF gameId = <<>>
       THEN [l |-> lobbyNotification(l, "enter-game-id", "warning"), sent |-> <<>>]
       ELSE [l |-> l,
             sent |-> <<[api |-> "join_game", gameId |-> gameId, response |-> <<>>,
                         body |-> [player_name |-> playerName, game_id |-> gameId]]>>]

\* createGame after the awaits: r is the outcome of fetch and response.json
createGameResume(l, req, r) ==
    IF r.kind = "throw" THEN lobbyNotification(l, "create-failed", "error")
    ELSE IF r.kind = "error" THEN lobbyNotification(l, r.error, "error")
    ELSE [l EXCEPT !.location = GamePath \o r.game_id]

\* joinGame reading #game-id again after the await
joinGameResumeRereads(l, req, r) ==
    IF r.kind = "throw" THEN lobbyNotification(l, "join-failed", "error")
    ELSE IF r.kind = "error" THEN lobbyNotification(l, r.error, "error")
    ELSE [l EXCEPT !.location = GamePath \o Trim(l.gameId)]

joinGameResume(l, req, r) ==
    IF r.kind = "throw" THEN lobbyNotification(l, "join-failed", "error")
    ELSE IF r.kind = "error" THEN lobbyNotification(l, r.error, "error")
    ELSE [l EXCEPT !.location = GamePath \o req.gameId]

\* what /api/create_game and /api/join_game answer: {game_id}, {error}, or
\* the request fails
SrvGameIds == { <<"9", "a">> }

SrvResponses ==
    {[kind |-> "ok", game_id |-> id] : id \in SrvGameIds}
        \cup {[kind |-> "error", error |-> "ServerError"], [kind |-> "throw"]}

NameTexts == { <<>>, <<"\t", ByteOrderMark>>, <<OghamSpace, "a">> }
GameIdTexts == { <<>>, <<"3">>, <<"a", " ">> }

GameIdle ==
    /\ game = GameInit0
    /\ dom = DomInit0(PlainMarkup)
    /\ timers = <<>>
    /\ uncaught = {}
    /\ outbox = <<>>
    /\ inbox = <<>>
    /\ fetch = [pc |-> "idle"]
    /\ srv = [snap |-> SrvSnapshot0("waiting"), issued |-> 0, lastIssued |-> NullState,
              subscribed |-> FALSE]

\* the lobby with one of its two forms filled in
LobbyInit ==
    /\ \/ \E n \in NameTexts, m \in Texts :
             lobby = [LobbyInit0 EXCEPT !.createPlayerName = n, !.maxPlayers = m]
       \/ \E n \in NameTexts, g \in GameIdTexts :
             lobby = [LobbyInit0 EXCEPT !.joinPlayerName = n, !.gameId = g]
    /\ requests = <<>>
    /\ GameIdle

Without(seq, i) == SubSeq(seq, 1, i - 1) \o SubSeq(seq, i + 1, Len(seq))

CreateGame ==
    /\ LET r == createGame(lobby)
       IN /\ Len(requests) + Len(r.sent) <= MaxPending
          /\ Len(r.l.notifications) <= MaxNotifications
          /\ lobby' = r.l
          /\ requests' = requests \o r.sent
    /\ UNCHANGED gameVars

JoinGame ==
    /\ LET r == joinGame(lobby)
       IN /\ Len(requests) + Len(r.sent) <= MaxPending
          /\ Len(r.l.notifications) <= MaxNotifications
          /\ lobby' = r.l
          /\ requests' = requests \o r.sent
    /\ UNCHANGED gameVars

\* the user retypes #game-id
TypeGameId ==
    /\ \E g \in GameIdTexts : lobby' = [lobby EXCEPT !.gameId = g]
    /\ UNCHANGED <<requests, gameVars>>

\* the server answers a request in flight
SrvAnswer ==
    /\ \E i \in 1..Len(requests), r \in SrvResponses :
          /\ requests[i].response = <<>>
          /\ requests' = [requests EXCEPT ![i].response = <<r>>]
    /\ UNCHANGED <<lobby, gameVars>>

CreateGameResume ==
    /\ \E i \in 1..Len(requests) :
          /\ requests[i].api = "create_game"
          /\ requests[i].response # <<>>
          /\ lobby' = createGameResume(lobby, requests[i], requests[i].response[1])
          /\ Len(lobby'.notifications) <= MaxNotifications
          /\ requests' = Without(requests, i)
    /\ UNCHANGED gameVars

JoinGameResume ==
    /\ \E i \in 1..Len(requests) :
          /\ requests[i].api = "join_game"
          /\ requests[i].response # <<>>
          /\ lobby' = joinGameResume(lobby, requests[i], requests[i].response[1])
          /\ Len(lobby'.notifications) <= MaxNotifications
          /\ requests' = Without(requests, i)
    /\ UNCHANGED gameVars

\* the oldest pending setTimeout(() => notification.remove(), 3000) fires
LobbyNotificationRemoved ==
    /\ lobby.notifications # <<>>
    /\ lobby' = lobbyRemoveNotification(lobby)
    /\ UNCHANGED <<requests, gameVars>>

LobbyNext ==
    \/ CreateGame \/ JoinGame \/ TypeGameId \/ LobbyNotificationRemoved
    \/ SrvAnswer \/ CreateGameResume \/ JoinGameResume

LobbySpec == LobbyInit /\ [][LobbyNext]_vars

-----------------------------------------------------------------------------
(* Claims about the lobby *)

JsonNull == [null |-> TRUE]

\* an integer between 3 and 8 inclusive, as it is sent in a request body
ValidMaxPlayers(v) ==
    /\ v # JsonNull
    /\ IsInteger(v)
    /\ v.exp = 0
    /\ ~v.neg
    /\ v.mant >= 3
    /\ v.mant <= 8

\* C9: every create_game request the lobby sends carries a non-empty
\* trimmed player name and a max-players value that is an integer between
\* 3 and 8 inclusive
C9_CreateRequestValid ==
    \A i \in 1..Len(requests) :
        requests[i].api = "create_game"
            => /\ requests[i].body.player_name # <<>>
               /\ requests[i].body.player_name = Trim(requests[i].body.player_name)
               /\ ValidMaxPlayers(requests[i].body.max_players)

\* the target of the navigation a request leads to when it is answered
\* without error
Target(req) ==
    IF req.api = "create_game" THEN GamePath \o req.response[1].game_id
    ELSE GamePath \o req.gameId

Resolved(i) ==
    /\ i \in 1..Len(requests)
    /\ requests[i].response # <<>>
    /\ requests' = Without(requests, i)

\* C10: the location changes only when a create_game or join_game request
\* is resolved by a response without error, and then to /game/<game_id of
\* the response> for createGame and to /game/<the game id entered when the
\* request was made> for joinGame; a request resolved by {error} or by a
\* failure leaves the location alone and shows an error notification; a call
\* that ends in a validation warning sends no request
C10_NavigateOnlyOnSuccess ==
    [][ /\ lobby'.location # lobby.location
            => \E i \in 1..Len(requests) :
                  /\ Resolved(i)
                  /\ requests[i].response[1].kind = "ok"
                  /\ lobby'.location = Target(requests[i])
        /\ \A i \in 1..Len(requests) :
              (Resolved(i) /\ requests[i].response[1].kind # "ok")
                  => /\ lobby'.location = lobby.location
                     /\ Len(lobby'.notifications) = Len(lobby.notifications) + 1
                     /\ lobby'.notifications[Len(lobby'.notifications)].type = "error"
        /\ \A i \in 1..Len(requests) :
              (Resolved(i) /\ requests[i].response[1].kind = "ok")
                  => lobby'.location = Target(requests[i])
        /\ Len(requests') > Len(requests) => lobby' = lobby
        /\ (/\ Len(lobby'.notifications) > Len(lobby.notifications)
            /\ lobby'.notifications[Len(lobby'.notifications)].type = "warning")
              => requests' = requests
      ]_vars

\* joinGame has navigated to the id it was called with although the field
\* was retyped while the request was in flight
C10_Witness ==
    /\ lobby.location = GamePath \o <<"3">>
    /\ lobby.gameId = <<"a", " ">>

-----------------------------------------------------------------------------
(* Claims about the game page *)

Positive(n) == ~n.nan /\ ~n.neg /\ (n.inf \/ n.mant > 0)

WellFormedInvest(data) ==
    /\ data.game_id = game.gameId
    /\ data.stock_symbol # ""
    /\ Positive(data.amount)
    /\ data.action \in {"buy", "sell"}

Warned(message) ==
    /\ game' = game
    /\ timers' = timers
    /\ dom' = [dom EXCEPT !.notifications =
                  Append(@, [message |-> message, arg |-> "", type |-> "warning"])]
    /\ outbox' = outbox

InvestSent(text, action) ==
    outbox' = Append(outbox, [type |-> "invest",
                              data |-> [game_id |-> game.gameId,
                                        stock_symbol |-> dom.stockSelect.value,
                                        amount |-> ParseFloat(text), action |-> action]])

\* C1: every invest message carries the client's game id, a non-empty
\* stock symbol, an amount that is a number greater than 0 and an action
\* buy or sell; makeInvestment sends buy and sellStock sends sell; with no
\* stock selected or an amount that is missing, not a number, zero or
\* negative nothing is sent and only a warning is shown
C1_InvestMessages ==
    [][ /\ \A i \in 1..Len(outbox') :
              outbox'[i].type = "invest" => WellFormedInvest(outbox'[i].data)
        /\ MakeInvestment =>
              IF dom.stockSelect.value = "" THEN Warned("select-stock")
              ELSE IF ~Positive(ParseFloat(dom.investAmount)) THEN Warned("invalid-invest-amount")
              ELSE InvestSent(dom.investAmount, "buy")
        /\ SellStock =>
              IF dom.stockSelect.value = "" THEN Warned("select-stock")
              ELSE IF ~Positive(ParseFloat(dom.sellAmount)) THEN Warned("invalid-sell-amount")
              ELSE InvestSent(dom.sellAmount, "sell")
      ]_vars

\* a sell order for 0.3 is on its way after an earlier attempt was refused
\* with a warning
C1_Witness ==
    /\ outbox # <<>>
    /\ outbox[1].type = "invest"
    /\ outbox[1].data.action = "sell"
    /\ outbox[1].data.amount = [nan |-> FALSE, inf |-> FALSE, neg |-> FALSE, mant |-> 3, exp |-> 1]
    /\ dom.notifications # <<>>
    /\ dom.notifications[1].type = "warning"

FailureArrived(type) == Arrived(type) /\ ~Head(inbox).data.success

ErrorShownOnly ==
    /\ game' = game
    /\ timers' = timers
    /\ dom' = [dom EXCEPT !.notifications =
                  Append(@, [message |-> Head(inbox).data.message, arg |-> "", type |-> "error"])]

\* C2: handling investment_result, card_use_result or vote_result with
\* success = false shows an error notification with the message and leaves
\* gameState, selectedStock, selectedCard, selectedTarget and the
\* investment form as they were
C2_FailureChangesNothing ==
    [][ /\ (FailureArrived("investment_result") /\ InvestmentResult) => ErrorShownOnly
        /\ (FailureArrived("card_use_result") /\ CardUseResult) => ErrorShownOnly
        /\ (FailureArrived("vote_result") /\ VoteResult) => ErrorShownOnly
      ]_vars

\* an invest sent during the voting phase was refused, and the form and the
\* selections are still in place
C2_Witness ==
    /\ dom.notifications = <<[message |-> "StateError", arg |-> "", type |-> "error"]>>
    /\ srv.snap.phase = "voting"
    /\ dom.investAmount = <<"3">>
    /\ dom.stockSelect.value = "AAA"
    /\ game.selectedCard = "c9"
    /\ game.selectedTarget = "p2"

\* C3: once the fetch of loadGameState has completed and every socket event
\* is handled, gameState is the snapshot the engine issued last
C3_LatestSnapshot ==
    (fetch.pc = "done" /\ inbox = <<>>) => game.gameState = srv.lastIssued

\* C4: handling a game_state_update snapshot a second time leaves the page
\* as the first handling left it: gameState, the rendered lists, the phase
\* panel and the pending countdowns
C4_SnapshotIdempotent ==
    Arrived("game_state_update") =>
        LET once == onGameStateUpdate(U, Head(inbox).data).u
            twice == onGameStateUpdate(once, Head(inbox).data).u
        IN twice = once

\* C5: once game_end was handled, its handler has not thrown and the modal
\* shows the final player list
C5_GameEndHandled ==
    dom.modals # <<>> =>
        /\ "game_end" \notin uncaught
        /\ dom.modals[1].winner = "normal"
        /\ Len(dom.modals[1].finalPlayers) = Len(SrvPlayers)

UseCardSent ==
    outbox' = Append(outbox, [type |-> "use_card",
                              data |-> [game_id |-> game.gameId,
                                        card_id |-> game.selectedCard,
                                        target_player_id |-> game.selectedTarget]])

\* C6: useCard sends use_card only when selectedCard is not null, with the
\* game id, card_id = selectedCard and target_player_id = selectedTarget
\* (null when no player was selected); with selectedCard null it sends
\* nothing and shows a warning
C6_UseCardParameters ==
    [][ UseCard =>
          /\ outbox' # outbox => (game.selectedCard # Null /\ UseCardSent)
          /\ game.selectedCard = Null => Warned("select-card")
          /\ game.selectedCard \notin {Null, ""} => UseCardSent
      ]_vars

\* a use_card message for a selected card with no player ever selected
C6_Witness ==
    /\ outbox # <<>>
    /\ outbox[1] = [type |-> "use_card",
                    data |-> [game_id |-> GameId, card_id |-> "c1", target_player_id |-> Null]]
    /\ game.selectedTarget = Null

VoteSent ==
    outbox' = Append(outbox, [type |-> "vote",
                              data |-> [game_id |-> game.gameId,
                                        target_player_id |-> game.selectedTarget]])

\* C7: vote sends a vote message only when selectedTarget is not null, for
\* the player item selected last: selectedTarget changes only by selecting
\* a player item, to that item's id, and every vote carries the current
\* selectedTarget; with no target it sends nothing and shows a warning
C7_VoteLatestTarget ==
    [][ /\ Vote =>
              /\ outbox' # outbox => (game.selectedTarget # Null /\ VoteSent)
              /\ game.selectedTarget = Null => Warned("select-vote-target")
              /\ game.selectedTarget \notin {Null, ""} => VoteSent
        /\ SelectPlayer =>
              \E i \in 1..Len(dom.playerList) :
                  /\ game'.selectedTarget = dom.playerList[i].playerId
                  /\ dom'.playerList[i].selected
                  /\ \A j \in 1..Len(dom'.playerList) : dom'.playerList[j].selected => j = i
        /\ game'.selectedTarget # game.selectedTarget => SelectPlayer
      ]_vars

\* a second vote, for p2, is on its way while the engine holds the same
\* voter's earlier vote for p1
C7_Witness ==
    /\ outbox # <<>>
    /\ outbox[1] = [type |-> "vote", data |-> [game_id |-> GameId, target_player_id |-> "p2"]]
    /\ srv.snap.votes = <<[target |-> "p1", voters |-> <<LocalPlayer>>]>>

PanelOf(phase) == {phase} \cap dom.panelIds

SnapshotPending == \E i \in 1..Len(inbox) : inbox[i].type = "game_state_update"

\* C8: after phase_change {phase} or a game_state_update is handled, the
\* panel of the announced phase is the only phase panel visible; and when
\* no snapshot is waiting to be handled, the visible panel is the one of
\* gameState.phase
C8_PhasePanel ==
    [][ /\ PhaseChange => dom'.panels = PanelOf(Head(inbox).data.phase)
        /\ GameStateUpdate => dom'.panels = PanelOf(Head(inbox).data.phase)
        /\ (game'.gameState # NullState /\ ~SnapshotPending')
              => dom'.panels = PanelOf(game'.gameState.phase)
      ]_vars

\* phase_change and the snapshot of the second round have both been handled
C8_Witness ==
    /\ inbox = <<>>
    /\ game.gameState # NullState
    /\ game.gameState.round = 2
    /\ dom.notifications # <<>>
    /\ dom.notifications[1].message = "phase-entered"
    /\ dom.panels = {"investment"}

\* C11: for every integer suspicion_level and trust_level of a snapshot, the
\* width of the rendered bar lies in 0..100, is the level itself when the
\* level lies in 0..100, is 0 for a level below 0 and 100 for one above 100.
Clamped(width, level) ==
    /\ width \in 0..100
    /\ level \in 0..100 => width = level
    /\ level < 0 => width = 0
    /\ level > 100 => width = 100

C11_BarWidth ==
    game.gameState # NullState =>
        /\ Len(dom.playerList) = Len(game.gameState.players)
        /\ \A i \in 1..Len(dom.playerList) :
              /\ Clamped(dom.playerList[i].suspicionBar.width,
                         game.gameState.players[i].suspicion_level)
              /\ Clamped(dom.playerList[i].trustBar.width,
                         game.gameState.players[i].trust_level)

\* a rendered list with one suspicion level below 0 and one trust level
\* above 100
C11_Witness ==
    /\ game.gameState # NullState
    /\ inbox = <<>>
    /\ Len(dom.playerList) = 2
    /\ game.gameState.players[1].suspicion_level < 0
    /\ game.gameState.players[2].trust_level > 100
    /\ dom.playerList[1].suspicionBar.width = 0
    /\ dom.playerList[2].trustBar.width = 100

\* C12: playerId is null in every reachable state of the page; so
\* getCurrentPlayer finds no player, updatePlayerInfo has rendered neither
\* money nor role, and once a snapshot is held the card area shows the
\* 'no cards' placeholder and no card.
C12_PlayerIdNull ==
    /\ game.playerId = Null
    /\ getCurrentPlayer(game) = <<>>
    /\ dom.playerMoney = <<>>
    /\ dom.playerRole = ""
    /\ dom.playerCards.items = <<>>
    /\ game.gameState # NullState => dom.playerCards.placeholder

\* a snapshot holding the local player with a card in hand was rendered, and
\* the page shows the placeholder
C12_Witness ==
    /\ game.gameState # NullState
    /\ FindPlayer(game.gameState.players, LocalPlayer) # <<>>
    /\ FindPlayer(game.gameState.players, LocalPlayer)[1].cards # <<>>
    /\ dom.playerCards.placeholder
    /\ game.playerId = Null

\* a click on a card item or on a player item: no event is consumed, nothing
\* is sent, and the clicked item is the one marked selected
CardClicked ==
    /\ UNCHANGED <<inbox, outbox>>
    /\ \/ \E i \in 1..Len(dom'.pageCards) :
             dom'.pageCards[i].selected /\ dom'.pageCards[i].cardId = game'.selectedCard
       \/ \E i \in 1..Len(dom'.playerCards.items) :
             /\ dom'.playerCards.items[i].selected
             /\ dom'.playerCards.items[i].cardId = game'.selectedCard

PlayerClicked ==
    /\ UNCHANGED <<inbox, outbox>>
    /\ \E i \in 1..Len(dom'.playerList) :
          dom'.playerList[i].selected /\ dom'.playerList[i].playerId = game'.selectedTarget

EventHandled == inbox # <<>> /\ inbox' = Tail(inbox)

CardUseSucceeded == Arrived("card_use_result") /\ Head(inbox).data.success

\* C13: selectedCard changes only by a click on a card item or, to null, by
\* card_use_result with success = true; selectedTarget changes only by a
\* click on a player item and, once set, is never null again; every other
\* handled event (game_state_update, phase_change, game_end,
\* investment_result, vote_result, a failed card_use_result) leaves both as
\* they were.
C13_SelectionFrame ==
    [][ /\ game'.selectedCard # game.selectedCard =>
              \/ CardClicked
              \/ EventHandled /\ CardUseSucceeded /\ game'.selectedCard = Null
        /\ game'.selectedTarget # game.selectedTarget => PlayerClicked
        /\ game.selectedTarget # Null => game'.selectedTarget # Null
        /\ (EventHandled /\ ~CardUseSucceeded) =>
              /\ game'.selectedCard = game.selectedCard
              /\ game'.selectedTarget = game.selectedTarget
      ]_vars

\* a vote on its way carries the player selected before a snapshot rendered
\* the player list anew: no item of the list is marked selected
C13_Witness ==
    /\ outbox # <<>>
    /\ outbox[1].type = "vote"
    /\ outbox[1].data.target_player_id = "p2"
    /\ game.selectedTarget = "p2"
    /\ game.selectedCard # Null
    /\ srv.issued > 0
    /\ game.gameState = srv.lastIssued
    /\ \A i \in 1..Len(dom.playerList) : ~dom.playerList[i].selected

\* the seconds a text of #phase-timer stands for
Remaining(text) ==
    IF text = ZeroText THEN 0
    ELSE CHOOSE k \in 1..(MaxCountdown + 1) : TimerText(k) = text

NoTimerText == [mm |-> "", ss |-> ""]

\* the countdown of the snapshot held: nothing started when time_remaining is
\* 0 or absent; otherwise one callback pending while the display is above
\* 0 and at most time_remaining, none once it reads 00:00
CountdownShape ==
    LET tr == game.gameState.time_remaining
    IN IF ~Truthy(tr) THEN timers = <<>> /\ dom.phaseTimer = NoTimerText
       ELSE \/ /\ timers = <<>>
                /\ dom.phaseTimer = ZeroText
             \/ /\ Len(timers) = 1
                /\ timers[1] \in 0..(Value(tr) - 1)
                /\ dom.phaseTimer = TimerText(timers[1] + 1)

CountdownOver ==
    /\ inbox = <<>>
    /\ timers = <<>>
    /\ Truthy(game.gameState.time_remaining) => dom.phaseTimer = ZeroText

\* a snapshot with a time_remaining other than 0 is handled
CountdownStarts ==
    /\ Arrived("game_state_update")
    /\ Truthy(Head(inbox).data.time_remaining)
    /\ GameStateUpdate

ShowsAll ==
    /\ dom'.phaseTimer = TimerText(Value(Head(inbox).data.time_remaining))
    /\ timers' = <<Value(Head(inbox).data.time_remaining) - 1>>

ShowsOneLess ==
    /\ Remaining(dom'.phaseTimer) = Remaining(dom.phaseTimer) - 1
    /\ (timers' = <<>>) <=> (Remaining(dom'.phaseTimer) = 0)

\* C14: a countdown started for n seconds shows n at once, each tick shows
\* one second less than the display before it, a further callback is
\* scheduled exactly while the display is above 0, and the countdown ends
\* with 00:00 on display and nothing scheduled; a snapshot whose
\* time_remaining is 0 or absent starts no countdown.
C14_CountdownTerminates ==
    /\ [](inbox = <<>> => CountdownShape)
    /\ [][(CountdownStarts => ShowsAll) /\ (Tick => ShowsOneLess)]_vars
    /\ (inbox # <<>>) ~> CountdownOver

\* the longest countdown has run down to 00:00 and nothing is scheduled
C14_Witness ==
    /\ inbox = <<>>
    /\ game.gameState # NullState
    /\ game.gameState.time_remaining = <<MaxCountdown>>
    /\ timers = <<>>
    /\ dom.phaseTimer = ZeroText

====
